---- MODULE Spec2Model ----
(***************************************************************************)
(* A model of mpd-mpris-bridge (src/src/main.rs): the per-connection MPD   *)
(* handler task (socket read loop, handle_mpd_queries, handle_mpd_query),  *)
(* the shared state (null_volume, player_state, the command channel), the  *)
(* command implementations that touch them, and the controller task        *)
(* observe_mpris that executes the Commands and publishes the PlayerState. *)
(*                                                                         *)
(* A read buffer is a sequence of tokens.  A token is either one of the    *)
(* two terminator bytes (LF, CR) or a maximal run of non-terminator bytes, *)
(* kept in the form handle_mpd_query splits it into: the bytes before the  *)
(* first space (name) and the bytes after it (arg).                        *)
(***************************************************************************)
EXTENDS Integers, Sequences, FiniteSets, TLC

\* ---------------------------------------------------------------- bounds
NumConns == 2
MaxReads == 2
MaxLines == 3

\* ------------------------------------------------------ program constants
ChannelCapacity == 8
MpdErrorCode == 5
MaxVolume == 100
U8Max == 255
I8Min == -128
I8Max == 127

Conns == 1..NumConns

\* ----------------------------------------------------------------- bytes
Cmd(n, a) == [name |-> n, arg |-> a]
LF == Cmd("\n", "")
CR == Cmd("\r", "")
IsTerminator(b) == b = LF \/ b = CR

\* remainder.iter().position(|&b| b == b'\n' || b == b'\r'); 0 stands for None
Position(buf) ==
    IF \E i \in 1..Len(buf) : IsTerminator(buf[i])
    THEN CHOOSE i \in 1..Len(buf) :
            /\ IsTerminator(buf[i])
            /\ \A j \in 1..(i - 1) : ~IsTerminator(buf[j])
    ELSE 0

\* ------------------------------------------------------ response lines
\* A field of a written line is either text or the decimal form of a number.
Str(s) == [s |-> s, n |-> -1]
Num(n) == [s |-> "", n |-> n]
NoText == Str("")
Line(kind, at, name, msg) == [kind |-> kind, at |-> at, name |-> name, msg |-> msg]
OkLine == Line("OK", NoText, NoText, NoText)
ListOkLine == Line("list_OK", NoText, NoText, NoText)
\* format!("volume: {volume}\n")
VolumeLine(v) == Line("volume:", NoText, NoText, Num(v))
\* a fixed multi-line payload (commands, tagtypes), kept as one entry
StaticPayload(what) == Line("payload", NoText, NoText, Str(what))
\* format!("ACK [{}@{}] {} {}\n", e.mpd_error_code, e.command_str,
\*         state.command_list_count, e): the text after '@' is the second
\* argument, the text after "] " the third, then Display of the error
\* ("Command <command_str> failed: ...").
AckLine(e, count) ==
    Line("ACK", Str(e.command_str), Num(count), Str(e.command_str))

\* MpdCommandError::new(command, message)
MpdCommandError(command) == [command_str |-> command, mpd_error_code |-> MpdErrorCode]

\* ------------------------------------------------------ argument parsing
\* arguments.replace("\"", "") on the argument texts the inputs use
StripQuotes(s) ==
    CASE s = "\"1\"" -> "1"
      [] s = "\"150\"" -> "150"
      [] s = "\"-5\"" -> "-5"
      [] OTHER -> s

IsDecimal(s) == s \in {"1", "-1", "150", "-5", "100", "300"}
DecimalValue(s) ==
    CASE s = "1" -> 1
      [] s = "-1" -> -1
      [] s = "150" -> 150
      [] s = "-5" -> -5
      [] s = "100" -> 100
      [] s = "300" -> 300
      [] OTHER -> 0

\* str::parse::<i8>() and str::parse::<u8>(): an error unless the text is a
\* decimal number of the type's range
ParseI8(s) ==
    IF IsDecimal(s) /\ DecimalValue(s) >= I8Min /\ DecimalValue(s) <= I8Max
    THEN [ok |-> TRUE, v |-> DecimalValue(s)]
    ELSE [ok |-> FALSE, v |-> 0]
ParseU8(s) ==
    IF IsDecimal(s) /\ DecimalValue(s) >= 0 /\ DecimalValue(s) <= U8Max
    THEN [ok |-> TRUE, v |-> DecimalValue(s)]
    ELSE [ok |-> FALSE, v |-> 0]

Min(a, b) == IF a < b THEN a ELSE b
Max(a, b) == IF a > b THEN a ELSE b

\* ------------------------------------------------------------------ state
VARIABLES
    pc,          \* per connection: where its handler task is (main, 153-178):
                 \* at socket.read, in handle_mpd_queries, in handle_volume
                 \* between load and store, or returned ("done")
    remainder,   \* per connection: handle_mpd_queries' remainder (306-349)
    state,       \* per connection: MpdQueryState (35-46)
    volume,      \* per connection: handle_volume's local after the load (696)
    null_volume, \* MpdSharedState.null_volume (59)
    channel,     \* the mpsc channel handlers send Commands on (111)
    reads,       \* per connection: socket reads that returned data so far
    rbuf,        \* per connection: the bytes of the read being handled (170)
    start,       \* per connection: MpdQueryState when that read returned
    log,         \* per connection: the dispatches of that read and what each
                 \* wrote to the socket and sent on the channel (322-348)
    list_view,   \* per connection: where the dispatched commands have left the
                 \* client's command list: "outside", "inside" one, inside one
                 \* with a "failed" command, or "unknown" once lines were dropped
    vol_ops,     \* the completed writes of null_volume, in store order
    closed,      \* per connection: the peer has closed, socket.read returns
                 \* Ok(0) (or an error) from now on (155-166, 671)
    acked,       \* per connection: the read before the one being handled ended
                 \* with an ACK line (341-347)
    idle_buf,    \* per connection: the bytes of the latest read of handle_idle
                 \* (669-674)
    enqueued,    \* every Command sent on the channel so far, in order (487-515)
    player_state,              \* MpdSharedState.player_state (60)
    last_emitted_player_state, \* observe_mpris' local of that name (212)
    ctl_pc,      \* where observe_mpris is: about to "clear" the store (214),
                 \* to "find" a player (215), in "sleep" (224), at the "recv"
                 \* of the inner loop (230) or at its "poll" (264-295)
    player,      \* observe_mpris' player: the unique name of the session held
    calls,       \* the control calls made on the backend, in order (234-258)
    prev_player_state,  \* what player_state held before its latest write (199)
    resolved     \* which find_mpris_player() gave the session held: the one
                 \* of the outer loop ("find", 215), the one after a poll
                 \* ("switch", 288-292), or "none" when no session is held

ctl_vars == <<player_state, last_emitted_player_state, ctl_pc, player, calls,
              prev_player_state, resolved>>
vars == <<pc, remainder, state, volume, null_volume, channel, reads, rbuf, start,
          log, list_view, vol_ops, closed, acked, idle_buf, enqueued,
          player_state, last_emitted_player_state, ctl_pc, player, calls,
          prev_player_state, resolved>>

\* Option<T>: None, or Some(v)
None == <<>>
Some(v) == <<v>>

\* the fields main() gives a fresh MpdQueryState
NewMpdQueryState ==
    [in_command_list |-> FALSE,
     in_command_list_ok |-> FALSE,
     command_list_ended |-> FALSE,
     command_list_count |-> 0,
     command_list_failed |-> FALSE,
     last_idle_player_state |-> None,
     last_idle_playlist_state |-> None,
     last_idle_mixer_state |-> None,
     should_close |-> FALSE]

\* main(): the shared state and the state of a handler after the greeting
Init ==
    /\ pc = [c \in Conns |-> "read"]
    /\ remainder = [c \in Conns |-> <<>>]
    /\ state = [c \in Conns |-> NewMpdQueryState]
    /\ volume = [c \in Conns |-> 0]
    /\ null_volume = 0
    /\ channel = <<>>
    /\ reads = [c \in Conns |-> 0]
    /\ rbuf = [c \in Conns |-> <<>>]
    /\ start = [c \in Conns |-> NewMpdQueryState]
    /\ log = [c \in Conns |-> <<>>]
    /\ list_view = [c \in Conns |-> "outside"]
    /\ vol_ops = <<>>
    /\ closed = [c \in Conns |-> FALSE]
    /\ acked = [c \in Conns |-> FALSE]
    /\ idle_buf = [c \in Conns |-> <<>>]
    /\ enqueued = <<>>
    /\ player_state = None
    /\ last_emitted_player_state = None
    /\ ctl_pc = "clear"
    /\ player = "none"
    /\ calls = <<>>
    /\ prev_player_state = None
    /\ resolved = "none"

\* ------------------------------------------------------ command dispatch
Ok(response, st, chan, vol) ==
    [ok |-> TRUE, response |-> response, state |-> st, channel |-> chan,
     null_volume |-> vol, error |-> MpdCommandError("")]
Err(command, st, chan, vol) ==
    [ok |-> FALSE, response |-> <<>>, state |-> st, channel |-> chan,
     null_volume |-> vol, error |-> MpdCommandError(command.name)]

\* state.command_list_failed && command != b"command_list_end"
Swallowed(command, st) ==
    st.command_list_failed /\ command.name # "command_list_end"

\* a pause that sends Pause whatever its argument
PlaybackCommandPauseOnly(command) ==
    CASE command.name \in {"play"} -> "Play"
      [] command.name = "pause" -> "Pause"
      [] command.name = "stop" -> "Stop"
      [] command.name = "next" -> "Next"
      [] command.name = "previous" -> "Prev"
      [] OTHER -> "None"
\* the Command a playback command sends: handle_play, handle_pause,
\* handle_stop, handle_next, handle_previous and the match on pause's argument
PlaybackCommand(command) ==
    CASE command.name = "play" -> "Play"
      [] command.name = "pause" ->
            IF command.arg \in {"1", "\"1\"", ""} THEN "Pause" ELSE "Play"
      [] command.name = "stop" -> "Stop"
      [] command.name = "next" -> "Next"
      [] command.name = "previous" -> "Prev"
      [] OTHER -> "None"

IsPlayback(command) == PlaybackCommand(command) # "None"

\* command_tx.send(..).await suspends while the channel holds its capacity
SendBlocks(command, st, chan) ==
    /\ ~Swallowed(command, st)
    /\ IsPlayback(command)
    /\ Len(chan) >= ChannelCapacity

\* handle_setvol
HandleSetvol(command, st, chan, vol) ==
    LET parsed == ParseU8(StripQuotes(command.arg))
    IN  IF parsed.ok
        THEN Ok(<<>>, st, chan, parsed.v)
        ELSE Err(command, st, chan, vol)

\* handle_getvol
HandleGetvol(command, st, chan, vol) == Ok(<<VolumeLine(vol)>>, st, chan, vol)

\* handle_volume up to the load: whether the argument parses as an i8
VolumeParses(command) == ParseI8(StripQuotes(command.arg)).ok
VolumeChange(command) == ParseI8(StripQuotes(command.arg)).v

\* (volume + volume_change).min(100).max(0) as u8
ClampVolume(v) == Max(Min(v, MaxVolume), 0)

\* ------------------------------------------------------- player state
\* struct PlayerState; durations and positions are whole seconds
PlayerState(status, title, artist, duration, elapsed, art_url) ==
    [playback_status |-> status, title |-> title, artist |-> artist,
     duration |-> duration, elapsed |-> elapsed, art_url |-> art_url]

GetStateForIdlePlayer(ps) ==
    [ps EXCEPT !.duration = None, !.elapsed = None]
\* a playlist projection that keeps the playback status
GetStateForIdlePlaylistWithStatus(ps) ==
    [ps EXCEPT !.duration = None, !.elapsed = None, !.art_url = None]
GetStateForIdlePlaylist(ps) ==
    [ps EXCEPT !.playback_status = "Paused", !.duration = None,
               !.elapsed = None, !.art_url = None]

\* current_raw_state.as_ref().map(|state| get_state_for_idle_player(state))
\* and the same for the playlist
CurrentIdlePlayerState(stored) ==
    IF stored = None THEN None ELSE Some(GetStateForIdlePlayer(stored[1]))
CurrentIdlePlaylistState(stored) ==
    IF stored = None THEN None ELSE Some(GetStateForIdlePlaylist(stored[1]))

\* a "key: value\n" line of a payload
Field(key, value) == Line(key, NoText, NoText, value)
\* the line a field of a PlayerState adds when it is Some
OptLines(o, lines) == IF o = None THEN <<>> ELSE lines

\* handle_dummy_status
HandleDummyStatus(vol) ==
    <<Field("repeat:", Num(0)), Field("random:", Num(0)), Field("song:", Num(0)),
      Field("playlistlength:", Num(0)), VolumeLine(vol),
      Field("state:", Str("stop"))>>

\* the match on playback_status of handle_status
StateName(status) ==
    CASE status = "Playing" -> "play"
      [] status = "Paused" -> "pause"
      [] OTHER -> "stop"

\* a status that fails
HandleStatusFails(command, st, chan, vol) == Err(command, st, chan, vol)
\* handle_status
HandleStatus(command, st, chan, vol) ==
    IF player_state = None
    THEN Ok(HandleDummyStatus(vol), st, chan, vol)
    ELSE LET ps == player_state[1]
         IN  Ok(<<Field("repeat:", Num(0)), Field("random:", Num(0)),
                  Field("song:", Num(0)), Field("playlistlength:", Num(1)),
                  VolumeLine(vol),
                  Field("state:", Str(StateName(ps.playback_status)))>>
                \o OptLines(ps.duration, <<Field("duration:", Num(ps.duration[1]))>>)
                \o OptLines(ps.elapsed,
                      <<Field("elapsed:", Num(ps.elapsed[1]))>>
                      \o OptLines(ps.duration,
                            <<Line("time:", Num(ps.elapsed[1]), NoText,
                                   Num(ps.duration[1]))>>))
                \o OptLines(ps.art_url, <<Field("arturl:", Str(ps.art_url[1]))>>),
                st, chan, vol)

\* handle_current_song
HandleCurrentSong(command, st, chan, vol) ==
    IF player_state = None
    THEN Ok(<<>>, st, chan, vol)
    ELSE LET ps == player_state[1]
         IN  Ok(OptLines(ps.title, <<Field("file:", Str(ps.title[1])),
                                     Field("Title:", Str(ps.title[1]))>>)
                \o OptLines(ps.artist, <<Field("Artist:", Str(ps.artist[1]))>>)
                \o OptLines(ps.duration, <<Field("Time:", Num(ps.duration[1])),
                                           Field("duration:", Num(ps.duration[1]))>>)
                \o OptLines(ps.art_url, <<Field("arturl:", Str(ps.art_url[1]))>>),
                st, chan, vol)

\* ------------------------------------------------------------------ idle
\* handle_idle's idle_player, idle_playlist, idle_mixer for the argument
\* texts the inputs use: every subsystem for no argument, else those named
IdleWatched(arg) ==
    CASE arg = "" -> {"player", "playlist", "mixer"}
      [] arg = "player" -> {"player"}
      [] arg = "playlist" -> {"playlist"}
      [] arg = "mixer" -> {"mixer"}
      [] arg = "player playlist" -> {"player", "playlist"}
      [] OTHER -> {}

\* checks that bring every watched snapshot up to date at a return
IdleCheckUpdatesAll(arg, st, stored, vol) ==
    LET current_player == CurrentIdlePlayerState(stored)
        current_playlist == CurrentIdlePlaylistState(stored)
        watched == IdleWatched(arg)
        differs ==
            {s \in watched :
                \/ s = "player" /\ current_player # st.last_idle_player_state
                \/ s = "playlist" /\ current_playlist # st.last_idle_playlist_state
                \/ s = "mixer" /\ Some(vol) # st.last_idle_mixer_state}
        updated ==
            [st EXCEPT
                !.last_idle_player_state =
                    IF "player" \in watched THEN current_player ELSE @,
                !.last_idle_playlist_state =
                    IF "playlist" \in watched THEN current_playlist ELSE @,
                !.last_idle_mixer_state =
                    IF "mixer" \in watched THEN Some(vol) ELSE @]
    IN  IF "player" \in differs THEN [changed |-> "player", state |-> updated]
        ELSE IF "playlist" \in differs THEN [changed |-> "playlist", state |-> updated]
        ELSE IF "mixer" \in differs THEN [changed |-> "mixer", state |-> updated]
        ELSE [changed |-> "none", state |-> st]

\* the checks at the top of handle_idle's loop: the first watched subsystem,
\* in the order player, playlist, mixer, whose projection differs from the
\* connection's snapshot, and the state with that snapshot updated
IdleCheck(arg, st, stored, vol) ==
    LET current_player == CurrentIdlePlayerState(stored)
        current_playlist == CurrentIdlePlaylistState(stored)
    IN  IF "player" \in IdleWatched(arg) /\ current_player # st.last_idle_player_state
        THEN [changed |-> "player",
              state |-> [st EXCEPT !.last_idle_player_state = current_player]]
        ELSE IF /\ "playlist" \in IdleWatched(arg)
                /\ current_playlist # st.last_idle_playlist_state
        THEN [changed |-> "playlist",
              state |-> [st EXCEPT !.last_idle_playlist_state = current_playlist]]
        ELSE IF "mixer" \in IdleWatched(arg) /\ Some(vol) # st.last_idle_mixer_state
        THEN [changed |-> "mixer",
              state |-> [st EXCEPT !.last_idle_mixer_state = Some(vol)]]
        ELSE [changed |-> "none", state |-> st]

\* b"changed: player\n" and the like
ChangedLine(subsystem) == Field("changed:", Str(subsystem))

\* read[0..i] == b"noidle" for the first terminator i of the read
IsNoidle(buf) ==
    LET i == Position(buf)
    IN  i # 0 /\ SubSeq(buf, 1, i - 1) = <<Cmd("noidle", "")>>

\* handle_mpd_query for every command but a volume command whose argument
\* parses (that one loads and stores null_volume in two steps, see below) and
\* an idle command naming a supported subsystem (that one waits, see below)
HandleMpdQuery(command, st, chan, vol) ==
    IF Swallowed(command, st) THEN Ok(<<>>, st, chan, vol)
    ELSE CASE command.name = "ping" -> Ok(<<>>, st, chan, vol)
           [] command.name = "commands" -> Ok(<<StaticPayload("commands")>>, st, chan, vol)
           [] command.name = "tagtypes" -> Ok(<<StaticPayload("tagtypes")>>, st, chan, vol)
           [] IsPlayback(command) ->
                Ok(<<>>, st, Append(chan, PlaybackCommand(command)), vol)
           [] command.name = "command_list_begin" ->
                Ok(<<>>, [st EXCEPT !.in_command_list = TRUE], chan, vol)
           [] command.name = "command_list_ok_begin" ->
                Ok(<<>>, [st EXCEPT !.in_command_list = TRUE,
                                    !.in_command_list_ok = TRUE], chan, vol)
           [] command.name = "command_list_end" ->
                Ok(<<>>, [st EXCEPT !.command_list_ended = TRUE], chan, vol)
           [] command.name \in {"playlistinfo", "lsinfo", "stats", "noidle"} ->
                Ok(<<>>, st, chan, vol)
           [] command.name = "currentsong" -> HandleCurrentSong(command, st, chan, vol)
           [] command.name = "status" -> HandleStatus(command, st, chan, vol)
           [] command.name = "idle" -> Err(command, st, chan, vol)
           [] command.name = "close" ->
                Ok(<<>>, [st EXCEPT !.should_close = TRUE], chan, vol)
           [] command.name = "volume" -> Err(command, st, chan, vol)
           [] command.name = "setvol" -> HandleSetvol(command, st, chan, vol)
           [] command.name = "getvol" -> HandleGetvol(command, st, chan, vol)
           [] OTHER -> Err(command, st, chan, vol)

\* ------------------------------------------------- handle_mpd_queries
\* What handle_mpd_queries writes for a result: the response, then list_OK,
\* nothing or OK; or the ACK line.
Written(res) ==
    LET st == res.state
    IN  IF res.ok
        THEN res.response \o
             (IF st.in_command_list_ok /\ ~st.command_list_ended
              THEN (IF st.command_list_count > 0 THEN <<ListOkLine>> ELSE <<>>)
              ELSE IF st.should_close THEN <<>>
              ELSE <<OkLine>>)
        ELSE <<AckLine(res.error, st.command_list_count)>>

\* the "return Ok(())" on should_close of the Ok arm
ReturnsOnClose(res) ==
    LET st == res.state
    IN  /\ res.ok
        /\ ~(st.in_command_list_ok /\ ~st.command_list_ended)
        /\ st.should_close

\* the end of a loop iteration: the command list bookkeeping
EndOfIteration(st) ==
    IF st.command_list_ended
    THEN [st EXCEPT !.in_command_list = FALSE,
                    !.in_command_list_ok = FALSE,
                    !.command_list_ended = FALSE]
    ELSE IF st.in_command_list
    THEN [st EXCEPT !.command_list_count = @ + 1]
    ELSE st

\* a handler task that returns whenever handle_mpd_queries has returned
AfterQueriesEnds(st) == "done"
\* where the handler task goes when handle_mpd_queries has returned Ok(())
AfterQueries(st) == IF st.should_close THEN "done" ELSE "read"

\* The command list as the client sees it after a dispatch: opened by an
\* opener, closed by command_list_end, failed by an error inside it; unknown
\* once a break or return has dropped command lines of the read.
DropsLines(dropped) == \E i \in 1..Len(dropped) : ~IsTerminator(dropped[i])
ListViewAfter(view, command, res, dropped) ==
    IF view = "unknown" \/ DropsLines(dropped)
    THEN "unknown"
    ELSE IF command.name \in {"command_list_begin", "command_list_ok_begin"}
    THEN (IF view = "outside" THEN "inside" ELSE "unknown")
    ELSE IF command.name = "command_list_end" THEN "outside"
    ELSE IF ~res.ok /\ view # "outside" THEN "failed"
    ELSE view

\* The rest of a loop iteration once handle_mpd_query has returned res for
\* command: the writes, then return, break, or the bookkeeping and the next
\* iteration on new_remainder.
FinishQuery(c, command, res, new_remainder) ==
    LET stops == ReturnsOnClose(res) \/ ~res.ok
    IN  /\ log' = [log EXCEPT ![c] =
                      Append(@, [cmd |-> command,
                                 wrote |-> Written(res),
                                 sent |-> IF res.channel = channel THEN "None"
                                          ELSE res.channel[Len(res.channel)],
                                 view |-> list_view[c]])]
        /\ list_view' = [list_view EXCEPT ![c] =
                            ListViewAfter(@, command, res,
                                          IF stops THEN new_remainder ELSE <<>>)]
        /\ channel' = res.channel
        /\ enqueued' = IF res.channel = channel THEN enqueued
                       ELSE Append(enqueued, res.channel[Len(res.channel)])
        /\ null_volume' = res.null_volume
        /\ state' = [state EXCEPT ![c] =
                        IF stops THEN res.state ELSE EndOfIteration(res.state)]
        /\ remainder' = [remainder EXCEPT ![c] =
                            IF stops THEN <<>> ELSE new_remainder]
        /\ pc' = [pc EXCEPT ![c] =
                     IF stops THEN AfterQueries(res.state) ELSE "queries"]

\* socket.read returned some bytes buf of bufs (n > 0); handle_mpd_queries starts
SocketRead(c, bufs) ==
    /\ pc[c] = "read"
    /\ ~closed[c]
    /\ reads[c] < MaxReads
    /\ \E buf \in bufs :
        /\ remainder' = [remainder EXCEPT ![c] = buf]
        /\ rbuf' = [rbuf EXCEPT ![c] = buf]
    /\ pc' = [pc EXCEPT ![c] = "queries"]
    /\ reads' = [reads EXCEPT ![c] = @ + 1]
    /\ start' = [start EXCEPT ![c] = state[c]]
    /\ log' = [log EXCEPT ![c] = <<>>]
    /\ acked' = [acked EXCEPT ![c] =
                    /\ log[c] # <<>>
                    /\ log[c][Len(log[c])].wrote # <<>>
                    /\ log[c][Len(log[c])].wrote[1].kind = "ACK"]
    /\ UNCHANGED <<state, volume, null_volume, channel, list_view, vol_ops,
                   closed, idle_buf, enqueued, ctl_vars>>

\* socket.read returned Ok(0) or an error: the handler task returns
SocketClosed(c) ==
    /\ pc[c] = "read"
    /\ pc' = [pc EXCEPT ![c] = "done"]
    /\ closed' = [closed EXCEPT ![c] = TRUE]
    /\ UNCHANGED <<remainder, state, volume, null_volume, channel, reads, rbuf,
                   start, log, list_view, vol_ops, acked, idle_buf, enqueued,
                   ctl_vars>>

\* One iteration of the loop of handle_mpd_queries.
LoopIteration(c) ==
    /\ pc[c] = "queries"
    /\ LET rem == remainder[c]
           i == Position(rem)
           \* remainder after split_off(i) (the whole of it when None)
           line == IF i = 0 THEN rem ELSE SubSeq(rem, 1, i - 1)
           new_remainder == IF i = 0 THEN rem ELSE SubSeq(rem, i, Len(rem))
       IN  IF rem = <<>>
           THEN \* break, Ok(()), and main()'s check of should_close
                /\ pc' = [pc EXCEPT ![c] = AfterQueries(state[c])]
                /\ UNCHANGED <<remainder, state, volume, null_volume, channel,
                               log, list_view, vol_ops, enqueued>>
           ELSE IF rem[1] = LF
           THEN \* remainder.remove(0); continue
                /\ remainder' = [remainder EXCEPT ![c] = Tail(rem)]
                /\ UNCHANGED <<pc, state, volume, null_volume, channel, log,
                               list_view, vol_ops, enqueued>>
           ELSE IF line = <<>>
           THEN \* split_off(0) left remainder empty; continue
                /\ remainder' = [remainder EXCEPT ![c] = <<>>]
                /\ list_view' = [list_view EXCEPT ![c] =
                                    IF DropsLines(new_remainder) THEN "unknown"
                                    ELSE @]
                /\ UNCHANGED <<pc, state, volume, null_volume, channel, log,
                               vol_ops, enqueued>>
           ELSE LET command == line[1]
                IN  /\ ~SendBlocks(command, state[c], channel)
                    /\ IF /\ command.name = "volume"
                          /\ ~Swallowed(command, state[c])
                          /\ VolumeParses(command)
                       THEN \* handle_volume: null_volume.load
                            /\ volume' = [volume EXCEPT ![c] = null_volume]
                            /\ pc' = [pc EXCEPT ![c] = "volume_store"]
                            /\ UNCHANGED <<remainder, state, null_volume,
                                           channel, log, list_view, vol_ops,
                                           enqueued>>
                       ELSE IF /\ command.name = "idle"
                               /\ ~Swallowed(command, state[c])
                               /\ IdleWatched(command.arg) # {}
                       THEN \* handle_idle: into its loop
                            /\ pc' = [pc EXCEPT ![c] = "idle"]
                            /\ UNCHANGED <<remainder, state, volume, null_volume,
                                           channel, log, list_view, vol_ops,
                                           enqueued>>
                       ELSE /\ FinishQuery(c, command,
                                  HandleMpdQuery(command, state[c], channel,
                                                 null_volume),
                                  new_remainder)
                            /\ vol_ops' =
                                 IF /\ command.name = "setvol"
                                    /\ ~Swallowed(command, state[c])
                                    /\ ParseU8(StripQuotes(command.arg)).ok
                                 THEN Append(vol_ops, command)
                                 ELSE vol_ops
                            /\ UNCHANGED volume
    /\ UNCHANGED <<reads, rbuf, start, closed, acked, idle_buf, ctl_vars>>

\* handle_volume from null_volume.store on, and the rest of the iteration
VolumeStore(c) ==
    /\ pc[c] = "volume_store"
    /\ LET rem == remainder[c]
           i == Position(rem)
           command == rem[1]
           new_remainder == IF i = 0 THEN rem ELSE SubSeq(rem, i, Len(rem))
           stored == ClampVolume(volume[c] + VolumeChange(command))
       IN  /\ FinishQuery(c, command, Ok(<<>>, state[c], channel, stored),
                          new_remainder)
           /\ vol_ops' = Append(vol_ops, command)
    /\ UNCHANGED <<volume, reads, rbuf, start, closed, acked, idle_buf, ctl_vars>>

\* ---------------------------------------------------------- handle_idle
\* The top of handle_idle's loop: a watched change is returned, else the
\* handler goes into the timed socket.read.
IdleLoop(c) ==
    /\ pc[c] = "idle"
    /\ LET rem == remainder[c]
           i == Position(rem)
           command == rem[1]
           new_remainder == IF i = 0 THEN rem ELSE SubSeq(rem, i, Len(rem))
           check == IdleCheck(command.arg, state[c], player_state, null_volume)
       IN  IF check.changed # "none"
           THEN FinishQuery(c, command,
                    Ok(<<ChangedLine(check.changed)>>, check.state, channel,
                       null_volume),
                    new_remainder)
           ELSE /\ pc' = [pc EXCEPT ![c] = "idle_wait"]
                /\ UNCHANGED <<remainder, state, null_volume, channel, log,
                               list_view, enqueued>>
    /\ UNCHANGED <<volume, reads, rbuf, start, vol_ops, closed, acked, idle_buf,
                   ctl_vars>>

\* timeout(sleep_duration, socket.read) elapsed: Err(_) => {}
IdleTimeout(c) ==
    /\ pc[c] = "idle_wait"
    /\ ~closed[c]
    /\ pc' = [pc EXCEPT ![c] = "idle"]
    /\ UNCHANGED <<remainder, state, volume, null_volume, channel, reads, rbuf,
                   start, log, list_view, vol_ops, closed, acked, idle_buf,
                   enqueued, ctl_vars>>

\* the read returned bytes buf of bufs: Ok(Ok(n)), n > 0.  A noidle line at the
\* start of them returns; any other bytes are dropped with the local `read`.
IdleRead(c, bufs) ==
    /\ pc[c] = "idle_wait"
    /\ ~closed[c]
    /\ \E buf \in bufs :
        /\ idle_buf' = [idle_buf EXCEPT ![c] = buf]
        /\ LET rem == remainder[c]
               i == Position(rem)
               command == rem[1]
               new_remainder == IF i = 0 THEN rem ELSE SubSeq(rem, i, Len(rem))
           IN  IF IsNoidle(buf)
               THEN FinishQuery(c, command, Ok(<<>>, state[c], channel, null_volume),
                                new_remainder)
               ELSE /\ pc' = [pc EXCEPT ![c] = "idle"]
                    /\ UNCHANGED <<remainder, state, null_volume, channel, log,
                                   list_view, enqueued>>
    /\ UNCHANGED <<volume, reads, rbuf, start, vol_ops, closed, acked, ctl_vars>>

\* the peer has closed: the read returns Ok(Ok(0)), no terminator is found in
\* the empty `read`, and the loop goes on
IdleEof(c) ==
    /\ pc[c] = "idle_wait"
    /\ closed' = [closed EXCEPT ![c] = TRUE]
    /\ idle_buf' = [idle_buf EXCEPT ![c] = <<>>]
    /\ pc' = [pc EXCEPT ![c] = "idle"]
    /\ UNCHANGED <<remainder, state, volume, null_volume, channel, reads, rbuf,
                   start, log, list_view, vol_ops, acked, enqueued, ctl_vars>>

\* the read failed: Ok(Err(e)) => return Err(e.into())
IdleError(c) ==
    /\ pc[c] = "idle_wait"
    /\ closed' = [closed EXCEPT ![c] = TRUE]
    /\ LET rem == remainder[c]
           i == Position(rem)
           command == rem[1]
           new_remainder == IF i = 0 THEN rem ELSE SubSeq(rem, i, Len(rem))
       IN  FinishQuery(c, command, Err(command, state[c], channel, null_volume),
                       new_remainder)
    /\ UNCHANGED <<volume, reads, rbuf, start, vol_ops, acked, idle_buf, ctl_vars>>

\* --------------------------------------------------------- observe_mpris
\* a try_set_player_state that writes no None
TrySetPlayerStateSomeOnly(value) ==
    IF last_emitted_player_state = value \/ value = None
    THEN UNCHANGED <<player_state, last_emitted_player_state, prev_player_state>>
    ELSE /\ player_state' = value
         /\ last_emitted_player_state' = value
         /\ prev_player_state' = player_state
\* try_set_player_state(&player_state, value, &mut last_emitted_player_state)
TrySetPlayerState(value) ==
    IF last_emitted_player_state = value
    THEN UNCHANGED <<player_state, last_emitted_player_state, prev_player_state>>
    ELSE /\ player_state' = value
         /\ last_emitted_player_state' = value
         /\ prev_player_state' = player_state

handler_vars == <<pc, remainder, state, volume, null_volume, reads, rbuf, start,
                  log, list_view, vol_ops, closed, acked, idle_buf, enqueued>>

\* the top of the outer loop: the store is reset to None
CtlClear ==
    /\ ctl_pc = "clear"
    /\ TrySetPlayerState(None)
    /\ ctl_pc' = "find"
    /\ UNCHANGED <<handler_vars, channel, player, calls, resolved>>

\* find_mpris_player(): a session of players, or an error and the backoff
CtlFind(players) ==
    /\ ctl_pc = "find"
    /\ \E found \in players \cup {"none"} :
        /\ player' = found
        /\ resolved' = IF found = "none" THEN "none" ELSE "find"
        /\ ctl_pc' = IF found = "none" THEN "sleep" ELSE "recv"
    /\ UNCHANGED <<handler_vars, channel, player_state,
                   last_emitted_player_state, calls, prev_player_state>>

\* sleep(fail_delay) is over; continue
CtlSleep ==
    /\ ctl_pc = "sleep"
    /\ ctl_pc' = "clear"
    /\ UNCHANGED <<handler_vars, channel, player_state,
                   last_emitted_player_state, player, calls, prev_player_state,
                   resolved>>

\* A controller that takes a failed call for the loss of the session
CtlCommandBreaks(results) ==
    /\ ctl_pc = "recv"
    /\ channel # <<>>
    /\ channel' = Tail(channel)
    /\ \E ok \in results :
        /\ calls' = Append(calls, [op |-> Head(channel), player |-> player, ok |-> ok])
        /\ IF ok
           THEN ctl_pc' = "poll" /\ UNCHANGED <<player, resolved>>
           ELSE ctl_pc' = "clear" /\ player' = "none" /\ resolved' = "none"
    /\ UNCHANGED <<handler_vars, player_state, last_emitted_player_state,
                   prev_player_state>>

\* command_rx.recv() returned a Command: the call on the session, which
\* returns one of results and whose error is logged
CtlCommand(results) ==
    /\ ctl_pc = "recv"
    /\ channel # <<>>
    /\ channel' = Tail(channel)
    /\ \E ok \in results :
        calls' = Append(calls, [op |-> Head(channel), player |-> player, ok |-> ok])
    /\ ctl_pc' = "poll"
    /\ UNCHANGED <<handler_vars, player_state, last_emitted_player_state, player,
                   prev_player_state, resolved>>

\* timeout(poll_delay, command_rx.recv()) elapsed with no Command
CtlTimeout ==
    /\ ctl_pc = "recv"
    /\ channel = <<>>
    /\ ctl_pc' = "poll"
    /\ UNCHANGED <<handler_vars, channel, player_state,
                   last_emitted_player_state, player, calls, prev_player_state,
                   resolved>>

\* A controller that looks for another session after every poll
CtlPollAlwaysResolves(polls, players) ==
    /\ ctl_pc = "poll"
    /\ \E fetched \in BOOLEAN, polled \in polls :
        IF ~fetched
        THEN /\ ctl_pc' = "clear"
             /\ player' = "none"
             /\ resolved' = "none"
             /\ UNCHANGED <<player_state, last_emitted_player_state,
                            prev_player_state>>
        ELSE /\ TrySetPlayerState(Some(polled))
             /\ ctl_pc' = "recv"
             /\ \E new_player \in players \cup {"none"} :
                    IF new_player # "none" /\ new_player # player
                    THEN player' = new_player /\ resolved' = "switch"
                    ELSE UNCHANGED <<player, resolved>>
    /\ UNCHANGED <<handler_vars, channel, calls>>

\* The rest of an iteration of the inner loop: get_playback_status and
\* get_metadata (an error of either breaks), get_position, the PlayerState
\* published, and find_mpris_player() again when the session is not Playing.
CtlPoll(polls, players) ==
    /\ ctl_pc = "poll"
    /\ \E fetched \in BOOLEAN, polled \in polls :
        IF ~fetched
        THEN /\ ctl_pc' = "clear"
             /\ player' = "none"
             /\ resolved' = "none"
             /\ UNCHANGED <<player_state, last_emitted_player_state,
                            prev_player_state>>
        ELSE /\ TrySetPlayerState(Some(polled))
             /\ ctl_pc' = "recv"
             /\ IF polled.playback_status # "Playing"
                THEN \E new_player \in players \cup {"none"} :
                        IF new_player # "none" /\ new_player # player
                        THEN player' = new_player /\ resolved' = "switch"
                        ELSE UNCHANGED <<player, resolved>>
                ELSE UNCHANGED <<player, resolved>>
    /\ UNCHANGED <<handler_vars, channel, calls>>

\* ------------------------------------------------------------- inputs
\* how a client ends a line: "\n" or "\r\n"
Terminators == {<<LF>>, <<CR, LF>>}
LinesOf(commands) == {<<command>> \o t : command \in commands, t \in Terminators}

\* the buffers of at most n complete lines of the given commands
RECURSIVE ReadsOf(_, _)
ReadsOf(commands, n) ==
    IF n = 0 THEN {<<>>}
    ELSE LET shorter == ReadsOf(commands, n - 1)
         IN  shorter \cup {r \o l : r \in shorter, l \in LinesOf(commands)}

ProtoCommands ==
    {Cmd("getvol", ""), Cmd("bogus", ""), Cmd("play", ""),
     Cmd("command_list_begin", ""), Cmd("command_list_ok_begin", ""),
     Cmd("command_list_end", ""), Cmd("close", "")}
ProtoReads == ReadsOf(ProtoCommands, MaxLines) \ {<<>>}

VolCommands ==
    {Cmd("volume", "1"), Cmd("setvol", "\"150\""), Cmd("setvol", "\"-5\""),
     Cmd("getvol", "")}
VolReads == ReadsOf(VolCommands, 1) \ {<<>>}

\* --------------------------------------------------------- specifications
\* One client speaking the protocol: reads of up to MaxLines lines.
ProtoRead == SocketRead(1, ProtoReads)
ProtoStep == LoopIteration(1)
ProtoClosed == SocketClosed(1)
Next == ProtoRead \/ ProtoStep \/ ProtoClosed
Spec == Init /\ [][Next]_vars

\* Every client sending volume commands, one line per read.
VolRead == \E c \in Conns : SocketRead(c, VolReads)
VolStep == \E c \in Conns : LoopIteration(c)
VolStore == \E c \in Conns : VolumeStore(c)
NextVol == VolRead \/ VolStep \/ VolStore
SpecVol == Init /\ [][NextVol]_vars

\* One client whose reads may end in a line with no terminator yet.  The code
\* never leaves the loop of handle_mpd_queries on such a line unless its
\* command fails or closes, so the dispatches of one read are capped.
MaxDispatch == MaxLines + 1
TailCommands == {Cmd("getvol", ""), Cmd("bogus", ""), Cmd("close", "")}
TailReads ==
    (ReadsOf(TailCommands, 1) \ {<<>>})
      \cup {r \o <<command>> : r \in ReadsOf(TailCommands, 1), command \in TailCommands}
TailRead == SocketRead(1, TailReads)
TailStep == Len(log[1]) < MaxDispatch /\ LoopIteration(1)
TailClosed == SocketClosed(1)
NextTail == TailRead \/ TailStep \/ TailClosed
SpecTail == Init /\ [][NextTail]_vars

\* what a poll of the backend can fetch: every PlayerState over the given
\* values of its fields
PolledStates(statuses, titles, artists, durations, positions, arts) ==
    {PlayerState(s, ti, ar, d, e, u) :
        s \in statuses, ti \in titles, ar \in artists, d \in durations,
        e \in positions, u \in arts}

\* One client that idles, next to the controller.  A backend with one session
\* that comes and goes; the client sends one line per read, or a noidle right
\* behind its idle, and may send a line while it idles.
IdleCommands == {Cmd("idle", "player"), Cmd("idle", "playlist")}
IdleReads ==
    {<<command, LF>> : command \in IdleCommands}
      \cup {<<Cmd("idle", "player"), LF, Cmd("noidle", ""), LF>>}
IdleBufs == {<<Cmd("noidle", ""), LF>>, <<Cmd("ping", ""), LF>>}
IdlePlayers == {"p1"}
IdlePolls ==
    PolledStates({"Playing", "Paused"}, {Some("A")}, {Some("X")},
                 {Some(180)}, {None, Some(5)}, {None})

IdleSocketRead == SocketRead(1, IdleReads)
IdleStep == LoopIteration(1)
IdleCheckStep == IdleLoop(1)
IdleWaitOver == IdleTimeout(1)
IdleData == IdleRead(1, IdleBufs)
IdlePeerClosed == IdleEof(1)
IdleSocketError == IdleError(1)
IdleSocketClosed == SocketClosed(1)
IdleCtlFind == CtlFind(IdlePlayers)
IdleCtlPoll == CtlPoll(IdlePolls, IdlePlayers)
NextIdle ==
    \/ IdleSocketRead
    \/ IdleStep
    \/ IdleCheckStep
    \/ IdleWaitOver
    \/ IdleData
    \/ IdlePeerClosed
    \/ IdleSocketError
    \/ IdleSocketClosed
    \/ CtlClear
    \/ IdleCtlFind
    \/ CtlSleep
    \/ CtlTimeout
    \/ IdleCtlPoll
SpecIdle == Init /\ [][NextIdle]_vars

\* The same, with the scheduling the runtime gives: a task that can take a
\* step takes it (a handler in its loops, a read on a closed socket returning,
\* the controller in its loops).  Nothing is assumed of the client or of the
\* backend.
SpecIdleFair ==
    /\ SpecIdle
    /\ WF_vars(IdleStep)
    /\ WF_vars(IdleCheckStep)
    /\ WF_vars(IdleWaitOver)
    /\ WF_vars(closed[1] /\ IdlePeerClosed)
    /\ WF_vars(closed[1] /\ IdleSocketClosed)
    /\ WF_vars(CtlClear)
    /\ WF_vars(IdleCtlFind)
    /\ WF_vars(CtlSleep)
    /\ WF_vars(CtlTimeout)
    /\ WF_vars(IdleCtlPoll)

\* One client sending playback and information commands, one line per
\* read, next to the controller.  A backend with one session that comes and
\* goes; every call on it may fail.
CtlCommands ==
    {Cmd("play", ""), Cmd("pause", ""), Cmd("pause", "1"), Cmd("pause", "0"),
     Cmd("stop", ""), Cmd("next", ""), Cmd("previous", ""), Cmd("status", ""),
     Cmd("currentsong", "")}
CtlReads == {<<command, LF>> : command \in CtlCommands}
CtlPlayers == {"p1"}
CtlPolls ==
    PolledStates({"Playing", "Stopped"}, {Some("A")}, {None},
                 {Some(180)}, {Some(5)}, {Some("u")})

CtlSocketRead == SocketRead(1, CtlReads)
CtlStep == LoopIteration(1)
CtlSocketClosed == SocketClosed(1)
CtlFindPlayer == CtlFind(CtlPlayers)
CtlCall == CtlCommand(BOOLEAN)
CtlPollPlayer == CtlPoll(CtlPolls, CtlPlayers)
NextCtl ==
    \/ CtlSocketRead
    \/ CtlStep
    \/ CtlSocketClosed
    \/ CtlClear
    \/ CtlFindPlayer
    \/ CtlSleep
    \/ CtlCall
    \/ CtlTimeout
    \/ CtlPollPlayer
SpecCtl == Init /\ [][NextCtl]_vars

\* One client sending `play` lines, MaxLines of them or one more than the
\* channel holds per read, next to the controller and a backend with one
\* session whose calls succeed when it is there; with the scheduling the
\* runtime gives the handler and the controller.  Nothing is assumed of the
\* backend: a session may never be found.
RECURSIVE Repeat(_, _)
Repeat(buf, n) == IF n = 0 THEN <<>> ELSE buf \o Repeat(buf, n - 1)
SendReads ==
    {Repeat(<<Cmd("play", ""), LF>>, n) : n \in {MaxLines, ChannelCapacity + 1}}
SendPlayers == {"p1"}
SendPolls ==
    PolledStates({"Playing"}, {Some("A")}, {None}, {None}, {None}, {None})
SendSocketRead == SocketRead(1, SendReads)
SendLoop == LoopIteration(1)
SendFind == CtlFind(SendPlayers)
SendCall == CtlCommand({TRUE})
SendPoll == CtlPoll(SendPolls, SendPlayers)
NextSend ==
    \/ SendSocketRead
    \/ SendLoop
    \/ CtlClear
    \/ SendFind
    \/ CtlSleep
    \/ SendCall
    \/ CtlTimeout
    \/ SendPoll
SpecSend ==
    /\ Init
    /\ [][NextSend]_vars
    /\ WF_vars(SendLoop)
    /\ WF_vars(CtlClear)
    /\ WF_vars(SendFind)
    /\ WF_vars(CtlSleep)
    /\ WF_vars(SendCall)
    /\ WF_vars(CtlTimeout)
    /\ WF_vars(SendPoll)

\* One client sending `play` and `next`, one line per read, next to the
\* controller and a backend with two sessions, either of which may be the
\* active one at any resolution.  Every call may fail; a poll may fail at
\* the status or the metadata, and an elapsed of None is a get_position()
\* that failed (its Err is turned into None by ok(), 283).
BackendCommands == {Cmd("play", ""), Cmd("next", "")}
BackendReads == {<<command, LF>> : command \in BackendCommands}
BackendPlayers == {"p1", "p2"}
BackendPolls ==
    PolledStates({"Playing", "Paused"}, {Some("A")}, {None},
                 {Some(180)}, {None, Some(5)}, {None})

BackendSocketRead == SocketRead(1, BackendReads)
BackendStep == LoopIteration(1)
BackendFind == CtlFind(BackendPlayers)
BackendCall == CtlCommand(BOOLEAN)
BackendPoll == CtlPoll(BackendPolls, BackendPlayers)
NextBackend ==
    \/ BackendSocketRead
    \/ BackendStep
    \/ CtlClear
    \/ BackendFind
    \/ CtlSleep
    \/ BackendCall
    \/ CtlTimeout
    \/ BackendPoll
SpecBackend == Init /\ [][NextBackend]_vars

\* One client that idles on every subsystem, on the playlist or on the
\* mixer and sets the volume, one line per read or several idles in one
\* read, next to the controller.  A backend with one session that comes and
\* goes, and plays or pauses a track.
IdleAll == Cmd("idle", "")
WatchCommands ==
    {IdleAll, Cmd("idle", "playlist"), Cmd("idle", "mixer"), Cmd("setvol", "50")}
WatchReads ==
    {<<command, LF>> : command \in WatchCommands}
      \cup {<<IdleAll, LF, IdleAll, LF, IdleAll, LF>>,
            <<IdleAll, LF, Cmd("idle", "playlist"), LF>>,
            <<IdleAll, LF, Cmd("idle", "mixer"), LF>>}
WatchPlayers == {"p1"}
WatchPolls ==
    PolledStates({"Playing", "Paused"}, {Some("A")}, {None},
                 {None}, {None}, {None})

WatchSocketRead == SocketRead(1, WatchReads)
WatchStep == LoopIteration(1)
WatchCheckStep == IdleLoop(1)
WatchWaitOver == IdleTimeout(1)
WatchCtlFind == CtlFind(WatchPlayers)
WatchCtlPoll == CtlPoll(WatchPolls, WatchPlayers)
NextWatch ==
    \/ WatchSocketRead
    \/ WatchStep
    \/ WatchCheckStep
    \/ WatchWaitOver
    \/ CtlClear
    \/ WatchCtlFind
    \/ CtlSleep
    \/ CtlTimeout
    \/ WatchCtlPoll
SpecWatch == Init /\ [][NextWatch]_vars

\* ------------------------------------------------------------ properties
TypeOK ==
    /\ pc \in [Conns -> {"read", "queries", "volume_store", "idle", "idle_wait",
                         "done"}]
    /\ ctl_pc \in {"clear", "find", "sleep", "recv", "poll"}
    /\ resolved \in {"none", "find", "switch"}
    /\ null_volume \in 0..U8Max
    /\ Len(channel) <= ChannelCapacity
    /\ \A c \in Conns :
        /\ reads[c] \in 0..MaxReads
        /\ state[c].command_list_count \in Nat
        /\ list_view[c] \in {"outside", "inside", "failed", "unknown"}

\* the read of connection c has been handled: the task is back at socket.read
\* or has returned
Handled(c) == pc[c] \in {"read", "done"} /\ rbuf[c] # <<>>

\* the command lines of a buffer, and whether each is a complete line
CommandLines(buf) == SelectSeq(buf, LAMBDA b : ~IsTerminator(b))
AllComplete(buf) ==
    /\ buf # <<>>
    /\ IsTerminator(buf[Len(buf)])
    /\ \A i \in 1..(Len(buf) - 1) : ~IsTerminator(buf[i]) => IsTerminator(buf[i + 1])
OnlyLF(buf) == \A i \in 1..Len(buf) : buf[i] # CR

\* everything written to the client while handling the read, in order
RECURSIVE Flatten(_)
Flatten(entries) ==
    IF entries = <<>> THEN <<>>
    ELSE entries[1].wrote \o Flatten(Tail(entries))
Output(c) == Flatten(log[c])
Dispatched(c) == [i \in 1..Len(log[c]) |-> log[c][i].cmd]
CountKind(lines, kind) == Cardinality({i \in 1..Len(lines) : lines[i].kind = kind})

\* the protocol's commands (the wire protocol's "Commands implemented")
Openers == {"command_list_begin", "command_list_ok_begin"}
ListCommands == Openers \cup {"command_list_end"}
Implemented ==
    {"ping", "commands", "tagtypes", "play", "pause", "stop", "next", "previous",
     "currentsong", "status", "idle", "noidle", "command_list_begin",
     "command_list_ok_begin", "command_list_end", "playlistinfo", "lsinfo",
     "stats", "close", "volume", "setvol", "getvol"}
\* the commands of the inputs that must fail: the unknown ones
MustFail(command) == command.name \notin Implemented
\* a command that is neither about command lists nor close
Single(command) == command.name \notin ListCommands \cup {"close"}

\* the quiet point of the volume commands: no handler between load and store
NoVolumeInFlight == \A c \in Conns : pc[c] # "volume_store"

\* C1: concurrent `volume <delta>` commands lose no update: as long as every
\* completed write is a `volume 1` (starting from 0), the stored volume is
\* the clamped number of them, min(100, number of `volume 1` commands).
NoLostVolumeUpdate ==
    (/\ NoVolumeInFlight
     /\ \A i \in 1..Len(vol_ops) : vol_ops[i] = Cmd("volume", "1"))
    => null_volume = Min(MaxVolume, Len(vol_ops))

\* C2: the emulated volume is within 0..100 in every reachable state, and
\* no getvol reports a volume above 100 (`setvol "150"` stores 100).
VolumeWithinRange ==
    /\ null_volume \in 0..MaxVolume
    /\ \A c \in Conns : \A i \in 1..Len(Output(c)) :
          Output(c)[i].kind = "volume:" => Output(c)[i].msg.n <= MaxVolume

\* w is a payload followed by exactly one terminator, ACK for a failure and
\* OK otherwise
AnsweredOnce(w, fails) ==
    /\ w # <<>>
    /\ w[Len(w)].kind = (IF fails THEN "ACK" ELSE "OK")
    /\ \A j \in 1..(Len(w) - 1) : w[j].kind \notin {"OK", "ACK", "list_OK"}

\* C3: every command line received outside a command list (other than close
\* and the list commands) is answered by its payload and exactly one
\* terminator, OK on success or one ACK on failure; lines after a failed
\* line of the same read are left out.
SingleCommandAnswered ==
    \A c \in Conns :
        LET L == CommandLines(rbuf[c])
        IN  (/\ Handled(c)
             /\ ~start[c].in_command_list
             /\ AllComplete(rbuf[c])
             /\ \A i \in 1..Len(L) : Single(L[i]))
            => \A i \in 1..Len(L) :
                  (\A j \in 1..(i - 1) : ~MustFail(L[j]))
                  => /\ Len(log[c]) >= i
                     /\ log[c][i].cmd = L[i]
                     /\ AnsweredOnce(log[c][i].wrote, MustFail(L[i]))

\* buf is one whole batch: the opener, single commands, command_list_end,
\* every line ended by "\n"
WholeBatch(buf, opener) ==
    LET L == CommandLines(buf)
    IN  /\ AllComplete(buf)
        /\ OnlyLF(buf)
        /\ Len(L) >= 2
        /\ L[1].name = opener
        /\ L[Len(L)].name = "command_list_end"
        /\ \A i \in 2..(Len(L) - 1) : Single(L[i])
AllSucceed(buf) ==
    \A i \in 1..Len(CommandLines(buf)) : ~MustFail(CommandLines(buf)[i])

\* C4: a command_list_begin batch whose commands all succeed gets exactly
\* one OK, written after command_list_end; none for the opener or for a
\* command inside the batch.
SilentBatchOneOk ==
    \A c \in Conns :
        (/\ Handled(c)
         /\ ~start[c].in_command_list
         /\ WholeBatch(rbuf[c], "command_list_begin")
         /\ AllSucceed(rbuf[c]))
        => /\ Len(log[c]) = Len(CommandLines(rbuf[c]))
           /\ CountKind(Output(c), "OK") = 1
           /\ log[c][Len(log[c])].wrote = <<OkLine>>

\* C5: in every command_list_ok_begin batch (the first and every later one)
\* each successful command is followed by exactly one list_OK, the opener
\* and command_list_end by none, and command_list_end by one OK.
OkBatchListOk ==
    \A c \in Conns :
        (/\ Handled(c)
         /\ ~start[c].in_command_list
         /\ WholeBatch(rbuf[c], "command_list_ok_begin")
         /\ AllSucceed(rbuf[c]))
        => /\ Len(log[c]) = Len(CommandLines(rbuf[c]))
           /\ log[c][1].wrote = <<>>
           /\ log[c][Len(log[c])].wrote = <<OkLine>>
           /\ \A i \in 2..(Len(log[c]) - 1) :
                LET w == log[c][i].wrote
                IN  /\ w # <<>>
                    /\ w[Len(w)] = ListOkLine
                    /\ CountKind(w, "list_OK") = 1
                    /\ CountKind(w, "OK") = 0

\* C6: a whole batch arriving in one read with a failing command yields
\* exactly one ACK, nothing after it, and is consumed: the read handled, the
\* connection is no longer in command-list mode.
FailedBatchConsumed ==
    \A c \in Conns :
        (/\ Handled(c)
         /\ ~start[c].in_command_list
         /\ \E opener \in Openers : WholeBatch(rbuf[c], opener)
         /\ ~AllSucceed(rbuf[c]))
        => /\ CountKind(Output(c), "ACK") = 1
           /\ Output(c)[Len(Output(c))].kind = "ACK"
           /\ ~state[c].in_command_list
           /\ ~state[c].in_command_list_ok

\* C7: after a command failed inside a command list, every later command of
\* that list (in whatever read) is swallowed until command_list_end: it
\* writes nothing (no second ACK) and enqueues no Command.
FailedListSwallows ==
    \A c \in Conns : \A i \in 1..Len(log[c]) :
        (log[c][i].view = "failed" /\ log[c][i].cmd.name # "command_list_end")
        => /\ log[c][i].wrote = <<>>
           /\ log[c][i].sent = "None"

SetMax(S) == CHOOSE x \in S : \A y \in S : y <= x
\* the 0-based position of the i-th dispatched command within its batch,
\* counted from the first command after the opener; 0 outside any batch
ListPosition(D, i) ==
    LET opens == {o \in 1..(i - 1) :
                    /\ D[o].name \in Openers
                    /\ \A k \in (o + 1)..(i - 1) : D[k].name # "command_list_end"}
    IN  IF opens = {} THEN 0 ELSE i - SetMax(opens) - 1

\* C8: the ACK of a failing command carries in its list-position field the
\* 0-based position of the command within its batch (0 outside any batch)
\* and in its command-name field the name of the failing command.
AckFields ==
    \A c \in Conns :
        ~start[c].in_command_list
        => \A i \in 1..Len(log[c]) : \A j \in 1..Len(log[c][i].wrote) :
              LET line == log[c][i].wrote[j]
              IN  line.kind = "ACK"
                  => /\ line.at = Num(ListPosition(Dispatched(c), i))
                     /\ line.name = Str(log[c][i].cmd.name)

\* C9: after close is dispatched, in any command-list mode, nothing more is
\* written, no further command is dispatched and the handler task ends.
CloseEndsHandler ==
    \A c \in Conns : \A i \in 1..Len(log[c]) :
        log[c][i].cmd.name = "close"
        => /\ i = Len(log[c])
           /\ log[c][i].wrote = <<>>
           /\ pc[c] = "done"

\* C10: every complete command line of a read, ended by "\n" or by "\r"
\* ("\r\n" included), is dispatched exactly once and in arrival order as
\* long as no earlier line of the read failed.
EveryLineDispatchedOnce ==
    \A c \in Conns :
        LET L == CommandLines(rbuf[c])
            D == Dispatched(c)
        IN  (/\ Handled(c)
             /\ AllComplete(rbuf[c])
             /\ \A i \in 1..Len(L) : L[i].name # "close")
            => /\ Len(D) <= Len(L)
               /\ D = SubSeq(L, 1, Len(D))
               /\ CountKind(Output(c), "ACK") = 0 => Len(D) = Len(L)

\* What C3, C9 and C10 say does hold where the faults they meet are out of
\* the way: for reads whose lines all end in "\n", and for close outside a
\* command_list_ok_begin batch.
SingleCommandAnsweredLF ==
    \A c \in Conns :
        LET L == CommandLines(rbuf[c])
        IN  (/\ Handled(c)
             /\ ~start[c].in_command_list
             /\ AllComplete(rbuf[c])
             /\ OnlyLF(rbuf[c])
             /\ \A i \in 1..Len(L) : Single(L[i]))
            => \A i \in 1..Len(L) :
                  (\A j \in 1..(i - 1) : ~MustFail(L[j]))
                  => /\ Len(log[c]) >= i
                     /\ log[c][i].cmd = L[i]
                     /\ AnsweredOnce(log[c][i].wrote, MustFail(L[i]))

CloseEndsHandlerOutsideOkList ==
    \A c \in Conns : \A i \in 1..Len(log[c]) :
        (log[c][i].cmd.name = "close" /\ ~state[c].in_command_list_ok)
        => /\ i = Len(log[c])
           /\ log[c][i].wrote = <<>>
           /\ pc[c] = "done"

EveryLineDispatchedOnceLF ==
    \A c \in Conns :
        LET L == CommandLines(rbuf[c])
            D == Dispatched(c)
        IN  (/\ Handled(c)
             /\ AllComplete(rbuf[c])
             /\ OnlyLF(rbuf[c])
             /\ \A i \in 1..Len(L) : L[i].name # "close")
            => /\ Len(D) <= Len(L)
               /\ D = SubSeq(L, 1, Len(D))
               /\ CountKind(Output(c), "ACK") = 0 => Len(D) = Len(L)

\* the complete lines of a buffer: command lines followed by a terminator
CompleteLineCount(buf) ==
    Cardinality({i \in 1..(Len(buf) - 1) :
                    ~IsTerminator(buf[i]) /\ IsTerminator(buf[i + 1])})

\* C11: the trailing part of a read that has no terminator is not dispatched
\* while handling that read (it waits for the read that brings its
\* terminator): the first read dispatches at most its complete lines.
TailNotDispatched ==
    \A c \in Conns :
        reads[c] = 1 => Len(log[c]) <= CompleteLineCount(rbuf[c])

\* the last thing written while handling the read of connection c is an ACK
EndsWithAck(c) ==
    /\ log[c] # <<>>
    /\ log[c][Len(log[c])].wrote # <<>>
    /\ log[c][Len(log[c])].wrote[1].kind = "ACK"
\* the first line of a buffer is a complete line of a command that is
\* neither about command lists nor close
StartsWithSingle(buf) ==
    /\ Len(buf) >= 2
    /\ ~IsTerminator(buf[1])
    /\ IsTerminator(buf[2])
    /\ Single(buf[1])

\* C12: a protocol error never closes the connection.  Once the ACK is
\* written (and no close was dispatched, and the socket is open) the handler
\* is back at socket.read; the first command of the next read is dispatched
\* and answered; and the handler task has ended only after close or after
\* the peer closed or the socket failed.
AckKeepsReading ==
    \A c \in Conns :
        /\ (EndsWithAck(c) /\ ~state[c].should_close /\ ~closed[c]) => pc[c] = "read"
        /\ (acked[c] /\ Handled(c) /\ StartsWithSingle(rbuf[c]))
              => /\ log[c] # <<>>
                 /\ log[c][1].cmd = rbuf[c][1]
                 /\ log[c][1].wrote # <<>>
                 /\ log[c][1].wrote[Len(log[c][1].wrote)].kind \in {"OK", "list_OK", "ACK"}
        /\ pc[c] = "done" => (state[c].should_close \/ closed[c])
\* a read that ended with an ACK was followed by a read whose command was
\* answered with OK, and the handler is reading again
AckThenAnswered ==
    \E c \in Conns :
        /\ acked[c]
        /\ Handled(c)
        /\ pc[c] = "read"
        /\ StartsWithSingle(rbuf[c])
        /\ log[c] # <<>>
        /\ log[c][1].wrote[Len(log[c][1].wrote)].kind = "OK"

\* connection c is inside handle_idle, and for which command
Idling(c) == pc[c] \in {"idle", "idle_wait"}
IdleCommand(c) == remainder[c][1]
\* a noidle line has arrived on connection c behind the idle being handled
NoidleArrived(c) ==
    \E i \in 2..Len(remainder[c]) : remainder[c][i] = Cmd("noidle", "")

\* C13: an `idle player` issued with no backend session does return once a
\* noidle has arrived on its connection (the peer closing the connection
\* first aside).
IdleReturnsOnNoidle ==
    \A c \in Conns :
        (/\ Idling(c)
         /\ IdleCommand(c) = Cmd("idle", "player")
         /\ NoidleArrived(c))
          ~> (~Idling(c) \/ closed[c])

\* the latest write of the store went from Playing to Paused on the same
\* title, artist and artwork; or changed nothing but duration or elapsed
PausedSameTrack(before, after) ==
    /\ before # None /\ after # None
    /\ before[1].playback_status = "Playing"
    /\ after[1].playback_status = "Paused"
    /\ before[1].title = after[1].title
    /\ before[1].artist = after[1].artist
    /\ before[1].art_url = after[1].art_url
OnlyTimesChanged(before, after) ==
    /\ before # None /\ after # None
    /\ before # after
    /\ GetStateForIdlePlayer(before[1]) = GetStateForIdlePlayer(after[1])
\* handle_idle's check on connection c against a value of the store
IdleResult(c, stored) ==
    IdleCheck(IdleCommand(c).arg, state[c], stored, null_volume).changed
\* connection c idles with snapshots that were up to date before the latest
\* write of the store
UpToDateBefore(c) == Idling(c) /\ IdleResult(c, prev_player_state) = "none"

\* C14: when the published state goes from Playing to Paused on the same
\* title, artist and artwork, an up-to-date connection idling on playlist
\* does not return and one idling on player returns `changed: player`; a
\* change of duration or elapsed alone makes neither return.
PauseWakesPlayerOnly ==
    \A c \in Conns :
        UpToDateBefore(c) =>
            /\ (PausedSameTrack(prev_player_state, player_state)
                  /\ IdleCommand(c).arg = "playlist")
                  => IdleResult(c, player_state) = "none"
            /\ (PausedSameTrack(prev_player_state, player_state)
                  /\ IdleCommand(c).arg = "player")
                  => IdleResult(c, player_state) = "player"
            /\ OnlyTimesChanged(prev_player_state, player_state)
                  => IdleResult(c, player_state) = "none"
\* an up-to-date connection idling on playlist is waiting after the state
\* went from Playing to Paused
PlaylistIdleSleepsThroughPause ==
    \E c \in Conns :
        /\ UpToDateBefore(c)
        /\ IdleCommand(c).arg = "playlist"
        /\ PausedSameTrack(prev_player_state, player_state)
        /\ pc[c] = "idle_wait"
        /\ state[c].last_idle_playlist_state # None

\* the payload of what a dispatch wrote: its lines but the terminator
Payload(wrote) == SelectSeq(wrote, LAMBDA l : l.kind \notin {"OK", "list_OK", "ACK"})
HasField(lines, key, value) ==
    \E i \in 1..Len(lines) : lines[i].kind = key /\ lines[i].msg = value
HasKey(lines, key) == \E i \in 1..Len(lines) : lines[i].kind = key
\* the no-player status: state stop, an empty playlist, nothing of a track
NoPlayerStatus(lines) ==
    /\ HasField(lines, "state:", Str("stop"))
    /\ HasField(lines, "playlistlength:", Num(0))
    /\ \A key \in {"duration:", "elapsed:", "time:", "arturl:"} : ~HasKey(lines, key)
\* the step dispatches a command named name on connection c
Dispatches(c, name) ==
    /\ Len(log'[c]) = Len(log[c]) + 1
    /\ log'[c][Len(log'[c])].cmd.name = name

\* C15: status and currentsong never fail and never touch the backend or
\* the channel; with the store's snapshot at None, status returns the
\* no-player payload and currentsong an empty payload.
InfoCommandsReadOnly ==
    [][\A c \in Conns : \A name \in {"status", "currentsong"} :
          Dispatches(c, name) =>
             LET entry == log'[c][Len(log'[c])]
             IN  /\ CountKind(entry.wrote, "ACK") = 0
                 /\ CountKind(entry.wrote, "OK") + CountKind(entry.wrote, "list_OK") = 1
                 /\ entry.sent = "None"
                 /\ channel' = channel
                 /\ calls' = calls
                 /\ (player_state = None /\ name = "status")
                       => NoPlayerStatus(Payload(entry.wrote))
                 /\ (player_state = None /\ name = "currentsong")
                       => Payload(entry.wrote) = <<>>]_vars
\* a status was answered with the no-player payload while calls had been
\* made on the backend, and a currentsong with an empty payload
NoPlayerStatusSeen ==
    \E c \in Conns :
        /\ Handled(c)
        /\ log[c] # <<>>
        /\ log[c][1].cmd.name = "status"
        /\ NoPlayerStatus(Payload(log[c][1].wrote))
        /\ player_state = None
        /\ calls # <<>>

\* C16: when the backend rejects the Stop call of a client's `stop`, a Pause
\* call is made on the same session as a retry: in the calls made on the
\* backend every failed Stop is followed by a Pause.
StopRetriedAsPause ==
    \A i \in 1..Len(calls) :
        (calls[i].op = "Stop" /\ ~calls[i].ok)
          => /\ i < Len(calls)
             /\ calls[i + 1].op = "Pause"
             /\ calls[i + 1].player = calls[i].player

\* the handler of connection c is suspended in command_tx.send(..)
BlockedOnSend(c) ==
    /\ pc[c] = "queries"
    /\ remainder[c] # <<>>
    /\ ~IsTerminator(remainder[c][1])
    /\ SendBlocks(remainder[c][1], state[c], channel)

\* C17: no handler blocks forever on the command channel: a handler
\* suspended in a send is eventually through with it, whether or not a
\* backend session can be found.
NoSendBlocksForever ==
    \A c \in Conns : BlockedOnSend(c) ~> ~BlockedOnSend(c)

\* C18: once the peer has closed the connection (socket.read returns zero
\* bytes) the handler task eventually ends, whatever it was doing, also
\* inside an idle with no watched change.
PeerCloseEndsHandler ==
    \A c \in Conns : closed[c] ~> pc[c] = "done"

\* the Command a playback command stands for
PlaybackNames == {"play", "pause", "stop", "next", "previous"}
ExpectedCommand(command) ==
    CASE command.name = "play" -> "Play"
      [] command.name = "pause" ->
            IF StripQuotes(command.arg) \in {"", "1"} THEN "Pause" ELSE "Play"
      [] command.name = "stop" -> "Stop"
      [] command.name = "next" -> "Next"
      [] OTHER -> "Prev"
\* the Commands the calls made on the backend were made for
CallOps == [i \in 1..Len(calls) |-> calls[i].op]

\* C19: every successfully dispatched playback command enqueues exactly one
\* Command (pause with no argument or argument 1: Pause, with another
\* argument: Play); every control call on the backend is made by the
\* controller for the Command it has just dequeued, on the session it holds:
\* the Commands enqueued so far are those executed, once each and in order,
\* followed by those still in the channel.
OneCommandOneCall ==
    [][/\ \A c \in Conns : \A name \in PlaybackNames :
            (Dispatches(c, name) /\ CountKind(log'[c][Len(log'[c])].wrote, "ACK") = 0)
              => LET command == log'[c][Len(log'[c])].cmd
                 IN  /\ enqueued' = Append(enqueued, ExpectedCommand(command))
                     /\ channel' = Append(channel, ExpectedCommand(command))
       /\ calls' # calls
            => /\ ctl_pc = "recv"
               /\ player \in CtlPlayers
               /\ channel # <<>>
               /\ channel' = Tail(channel)
               /\ calls' = Append(calls, [op |-> Head(channel), player |-> player,
                                          ok |-> calls'[Len(calls')].ok])
       /\ enqueued' = CallOps' \o channel']_vars
\* `pause 1` and `pause 0` were dispatched in two reads and both Commands,
\* Pause then Play, have been executed on a session
PauseThenPlayExecuted ==
    /\ enqueued = <<"Pause", "Play">>
    /\ CallOps = enqueued
    /\ channel = <<>>
    /\ Handled(1)
    /\ log[1][1].cmd = Cmd("pause", "0")
    /\ \A i \in 1..Len(calls) : calls[i].player \in CtlPlayers

\* the controller is Disconnected: resolving a session (find_mpris_player)
\* or waiting out the failure backoff
Disconnected == ctl_pc \in {"find", "sleep"}

\* C20: whenever the controller is Disconnected the store's player snapshot
\* is None: it is None until the first successful poll and has been reset
\* to None before each discovery attempt that follows the loss of a session.
DisconnectedMeansNone ==
    Disconnected => (player_state = None /\ last_emitted_player_state = None)
\* the controller is Disconnected after it lost a session whose state it had
\* published
DisconnectedAfterLoss ==
    /\ Disconnected
    /\ prev_player_state # None
    /\ player_state = None

\* ---- C21
\* In the inner loop of observe_mpris, a Command whose call on the session
\* fails leaves the controller with its session and at the poll of the same
\* iteration; a poll that fails at the playback status or at the metadata
\* gives the session up and writes nothing to the store; every other poll,
\* one whose position read failed included, publishes its PlayerState (with
\* elapsed None when the position read failed) and keeps a session.
Connected == ctl_pc \in {"recv", "poll"} /\ player # "none"
CallMade == Len(calls') = Len(calls) + 1
PollBreaks == ctl_pc = "poll" /\ ctl_pc' = "clear"
PollPublishes == ctl_pc = "poll" /\ ctl_pc' = "recv"
BackendErrors ==
    [][/\ (CallMade /\ ~calls'[Len(calls')].ok) =>
            /\ Connected
            /\ ctl_pc' = "poll"
            /\ player' = player
            /\ UNCHANGED <<player_state, last_emitted_player_state>>
       /\ PollBreaks =>
            /\ Connected
            /\ ~Connected'
            /\ player' = "none"
            /\ UNCHANGED <<player_state, last_emitted_player_state>>
       /\ (ctl_pc = "poll" /\ ctl_pc' # "poll") => (PollBreaks \/ PollPublishes)
       /\ PollPublishes =>
            /\ Connected
            /\ Connected'
            /\ \E polled \in BackendPolls :
                /\ player_state' = Some(polled)
                /\ last_emitted_player_state' = Some(polled)
      ]_vars

\* a call failed, and the poll after it was published although its position
\* read failed; the controller still holds the session the call was made on
FailedCallThenPublished ==
    /\ calls # <<>>
    /\ ~calls[Len(calls)].ok
    /\ calls[Len(calls)].player = player
    /\ ctl_pc = "recv"
    /\ channel = <<>>
    /\ resolved = "find"
    /\ player_state # None
    /\ player_state[1].elapsed = None

\* ---- C22
\* A controller that holds a session gets another one in its place only in
\* the poll of an iteration whose playback status was not Playing, and the
\* new one is a session of the backend other than the one held; a poll
\* whose status is Playing, the wait for a Command and a call leave the
\* session held as it is.
HandleReplaced == player # "none" /\ player' # "none" /\ player' # player
PolledStatus == player_state[1].playback_status
HandleReplacedOnlyWhenNotPlaying ==
    [][/\ HandleReplaced =>
            /\ PollPublishes
            /\ PolledStatus' # "Playing"
            /\ player' \in BackendPlayers
            /\ resolved' = "switch"
       /\ (PollPublishes /\ PolledStatus' = "Playing") =>
            UNCHANGED <<player, resolved>>
       /\ (ctl_pc = "recv" /\ ctl_pc' = "poll") =>
            UNCHANGED <<player, resolved>>
      ]_vars

\* the session held was taken over from another one after a poll that found
\* the former paused, and calls have been made on both
SwitchedWhilePaused ==
    /\ resolved = "switch"
    /\ ctl_pc = "recv"
    /\ player_state # None
    /\ PolledStatus = "Paused"
    /\ Len(calls) = 2
    /\ calls[1].player # calls[2].player
    /\ calls[2].player = player

\* ---- C23
\* When handle_idle returns a change, the response holds one `changed:`
\* line, for the first subsystem in the order player, playlist, mixer that
\* the idle watches and whose projection differs from the connection's
\* snapshot; that snapshot takes the projection, the two other snapshots,
\* the store and the volume stay as they were, and every other subsystem
\* that differed still differs after the return.  handle_idle goes into its
\* wait only when no watched subsystem differs.
SubsystemOrder == <<"player", "playlist", "mixer">>
Subsystems == {SubsystemOrder[i] : i \in 1..Len(SubsystemOrder)}
Snapshot(st, s) ==
    CASE s = "player" -> st.last_idle_player_state
      [] s = "playlist" -> st.last_idle_playlist_state
      [] s = "mixer" -> st.last_idle_mixer_state
Projection(s) ==
    CASE s = "player" -> CurrentIdlePlayerState(player_state)
      [] s = "playlist" -> CurrentIdlePlaylistState(player_state)
      [] s = "mixer" -> Some(null_volume)
Pending(c, s) == Projection(s) # Snapshot(state[c], s)
Watching(c) == IdleWatched(remainder[c][1].arg)
FirstPending(c) ==
    LET at == {i \in 1..Len(SubsystemOrder) :
                  SubsystemOrder[i] \in Watching(c) /\ Pending(c, SubsystemOrder[i])}
    IN  SubsystemOrder[CHOOSE i \in at : \A j \in at : i <= j]
IdleReturnsChange(c) == pc[c] = "idle" /\ Len(log'[c]) = Len(log[c]) + 1
IdleReportsFirstPending ==
    [][\A c \in Conns :
        /\ IdleReturnsChange(c) =>
            /\ \E s \in Watching(c) : Pending(c, s)
            /\ Payload(log'[c][Len(log'[c])].wrote) = <<ChangedLine(FirstPending(c))>>
            /\ Snapshot(state'[c], FirstPending(c)) = Projection(FirstPending(c))
            /\ \A s \in Subsystems \ {FirstPending(c)} :
                /\ Snapshot(state'[c], s) = Snapshot(state[c], s)
                /\ Pending(c, s) => Pending(c, s)'
            /\ UNCHANGED <<player_state, null_volume>>
        /\ (pc[c] = "idle" /\ pc'[c] = "idle_wait") =>
            \A s \in Watching(c) : ~Pending(c, s)
      ]_vars

\* three idles on every subsystem, sent in one read, have reported the
\* player, the playlist and the mixer, one each and in this order
ReportedOneByOne ==
    /\ Len(log[1]) >= Len(SubsystemOrder)
    /\ \A i \in 1..Len(SubsystemOrder) :
        /\ log[1][i].cmd = IdleAll
        /\ Payload(log[1][i].wrote) = <<ChangedLine(SubsystemOrder[i])>>

\* ---- C24
\* handle_mpd_queries returns for every buffer: no iteration of its loop
\* that dispatched a command ends where it began, with the same bytes left
\* to handle, the same connection state and the same shared state (from
\* there the loop, which reads nothing else, repeats the iteration forever
\* and writes the response each time).
IterationDispatched(c) ==
    /\ pc[c] = "queries"
    /\ pc'[c] = "queries"
    /\ Len(log'[c]) = Len(log[c]) + 1
BackWhereItBegan(c) ==
    /\ remainder'[c] = remainder[c]
    /\ state'[c] = state[c]
    /\ UNCHANGED <<null_volume, channel, player_state>>
EveryDispatchConsumes ==
    [][\A c \in Conns : IterationDispatched(c) => ~BackWhereItBegan(c)]_vars
====
